---- MODULE Spec2Model ----
(***************************************************************************)
(* Tilt Platform Runner (src/game.js): the world streamer, the platform    *)
(* angle controller, the camera tracker, the run state machine and the     *)
(* frame loop, as a state machine.                                         *)
(*                                                                         *)
(* Numbers.  The program computes in doubles; the model computes exactly,  *)
(* in integers.  Every length (an x or y coordinate, a width, a distance)  *)
(* is held in sub-pixels, U sub-pixels to the pixel, and every angle in    *)
(* angle units, MAX_PLATFORM_ANGLE_RAD (pi/5) being 25 * 5^MaxFrames of    *)
(* them.  U and the angle unit are chosen so that every product and        *)
(* quotient the program forms within MaxFrames frames is an integer: the   *)
(* divisions below are exact (ExactArithmetic).                            *)
(*                                                                         *)
(* Scheduling.  JavaScript handlers run to completion on one queue, so     *)
(* each handler is one action.  requestAnimationFrame callbacks queued     *)
(* for a display frame all run in that frame's rendering step, with the    *)
(* frame's timestamp: BeginFrame opens the step, loop runs one callback,   *)
(* and no other handler runs until the step's callbacks are done.          *)
(***************************************************************************)
EXTENDS Integers, Sequences, FiniteSets, TLC

\* ------------------------------------------------------------------ bounds

\* loop callbacks the browser runs in one behaviour.
MaxFrames == 3

\* startGame invocations that may be suspended at the permission request.
MaxPendingStarts == 2

\* Input events (resize, key, deviceorientation) that change an input, in one
\* behaviour.
MaxInputs == 2

\* The distance (pixels) the physics step may carry the ball in one frame.
BallStep == 2000

RECURSIVE Pow5(_)
Pow5(n) == IF n = 0 THEN 1 ELSE 5 * Pow5(n - 1)

\* Sub-pixels per pixel.
U == 10 * Pow5(MaxFrames)

Px(n) == n * U

NULL == -1

Min(a, b) == IF a < b THEN a ELSE b

Max(a, b) == IF a > b THEN a ELSE b

RECURSIVE GCD(_, _)
GCD(a, b) == IF b = 0 THEN a ELSE GCD(b, a % b)

\* ------------------------------------------------------- CONFIG (game.js:77)

PLATFORM_LENGTH == 260

PLATFORM_HEIGHT == 20

PLATFORM_GAP_MIN == 80

PLATFORM_GAP_MAX == 140

\* PLATFORM_Y_BASE_RATIO is 0.6: the ratio in tenths.
PLATFORM_Y_BASE_RATIO_TENTHS == 6

PLATFORM_Y_VARIATION == 60

MAX_TILT_DEG == 25

\* pi/5 radians, in angle units.
MAX_PLATFORM_ANGLE_RAD == 25 * Pow5(MaxFrames)

PLATFORM_ANGLE_LERP == 8

\* CAMERA_LEAD_RATIO is 0.3: the ratio in tenths.
CAMERA_LEAD_RATIO_TENTHS == 3

CAMERA_LERP == 6

\* KILL_Y_MULTIPLIER is 2.0.
KILL_Y_MULTIPLIER == 2

\* createWorld's initialCount.
initialCount == 10

\* The ball's height above the platform line at creation (baseY - 40).
BALL_START_LIFT == 40

\* ------------------------------------------------------------- environment

\* Viewports (window.innerWidth, window.innerHeight), in pixels: one
\* landscape, one portrait.
Sizes == { [w |-> 800, h |-> 400], [w |-> 400, h |-> 800] }

\* What the host offers: "ios" has DeviceOrientationEvent.requestPermission,
\* "direct" has DeviceOrientationEvent without it, "none" has neither.
Devices == { "ios", "direct", "none" }

\* event.gamma of a deviceorientation event, in degrees; NoGamma is a null
\* gamma.
NoGamma == 1000

Gammas == { NoGamma, -50, 10, 50 }

\* Milliseconds between two display frames.
FrameGaps == { 100, 5000 }

\* Math.random() is a generator with hidden state: its state is rng, the
\* value it returns is rng / RngMod, in [0, 1).
RngMod == 3

NextRng(r) == (r + 1) % RngMod

VARIABLES
  width, height,          \* viewport as of the last resizeCanvas (sub-pixels)
  ball,                   \* [id, x, y]
  platforms,              \* sequence of [id, x, y, angle]
  lastPlatformEndX,
  cameraX,
  platformAngle, targetPlatformAngle,
  startX, distanceTravelled,
  tiltX, useTilt,
  keys,                   \* [left, right]
  lastTime, running,
  worldBodies,            \* ids of the bodies in the Matter world
  nextBodyId,             \* Matter's body id counter
  rng,                    \* Math.random's state
  status,                 \* statusEl.textContent: [text, distance]
  overlayShown,           \* overlay.style.display = 'flex'
  device,                 \* the host's orientation capability
  pendingStarts,          \* startGame invocations awaiting requestPermission
  rafCallbacks,           \* loop callbacks requested for the next frame
  frameCallbacks,         \* loop callbacks still to run in the current frame
  clock,                  \* timestamp of the current display frame (ms)
  frameNo,                \* loop callbacks run or due in an opened frame
  engineAngles,           \* platform body angles at the last Engine.update
  inputs                  \* input events that changed an input

vars == << width, height, ball, platforms, lastPlatformEndX, cameraX,
           platformAngle, targetPlatformAngle, startX, distanceTravelled,
           tiltX, useTilt, keys, lastTime, running, worldBodies, nextBodyId,
           rng, status, overlayShown, device, pendingStarts, rafCallbacks,
           frameCallbacks, clock, frameNo, engineAngles, inputs >>

\* ------------------------------------------------------------------ helpers

\* randBetween(min, max) with Math.random() = r / RngMod.
randBetween(min, max, r) == min + (r * (max - min)) \div RngMod

IdsOf(ps) == { ps[i].id : i \in 1..Len(ps) }

RightEdge(p) == p.x + Px(PLATFORM_LENGTH) \div 2

LeftEdge(p) == p.x - Px(PLATFORM_LENGTH) \div 2

\* cur + (target - cur) * t, with t = min(1, stiffness * dt), dt = dtMs/1000.
LerpNum(stiffness, dtMs) == Min(1000, stiffness * dtMs)

Lerp(cur, target, stiffness, dtMs) ==
  LET num == LerpNum(stiffness, dtMs)
      g == GCD(1000, num)
  IN  cur + ((target - cur) * (num \div g)) \div (1000 \div g)

\* distanceTravelled.toFixed(0): the nearest whole pixel.
ToFixed0(v) == (v + U \div 2) \div U

Status(text) == [text |-> text, distance |-> NULL]

\* ------------------------------------------------- world / level generation

\* A faulty WorldClear: the old bodies stay in the world.
WorldClear_keep(bodies) == bodies

\* World.clear(world, false): no body stays in the world.
WorldClear(bodies) == {}

\* A faulty InitialGap: the first platform gets a gap like the others.
InitialGap_always(i, r) ==
  randBetween(Px(PLATFORM_GAP_MIN), Px(PLATFORM_GAP_MAX), r)

\* const gap = i === 0 ? 0 : randBetween(GAP_MIN, GAP_MAX), drawn at generator
\* state r.
InitialGap(i, r) ==
  IF i = 0 THEN 0 ELSE randBetween(Px(PLATFORM_GAP_MIN), Px(PLATFORM_GAP_MAX), r)

\* The loop of createWorld (game.js:175-191), from iteration i on: st holds
\* platforms, currentEndX, rng, nextBodyId and worldBodies so far.
RECURSIVE InitialPlatforms(_, _, _)
InitialPlatforms(i, st, baseY) ==
  IF i = initialCount THEN st
  ELSE LET gap == InitialGap(i, st.rng)
           r1 == IF i = 0 THEN st.rng ELSE NextRng(st.rng)
           centerX == st.currentEndX + gap + Px(PLATFORM_LENGTH) \div 2
           yVariation == randBetween(-Px(PLATFORM_Y_VARIATION), Px(PLATFORM_Y_VARIATION), r1)
           centerY == baseY + yVariation
           platform == [id |-> st.nextBodyId, x |-> centerX, y |-> centerY, angle |-> 0]
       IN  InitialPlatforms(i + 1,
             [ platforms |-> Append(st.platforms, platform),
               worldBodies |-> st.worldBodies \cup {platform.id},
               currentEndX |-> centerX + Px(PLATFORM_LENGTH) \div 2,
               rng |-> NextRng(r1),
               nextBodyId |-> st.nextBodyId + 1 ],
             baseY)

\* createWorld(): the values it leaves in the world state variables, given
\* the viewport (w, h), the generator state, the body id counter and the
\* bodies in the world when it is called.
createWorld(w, h, r, id, bodies) ==
  LET baseY == (h * PLATFORM_Y_BASE_RATIO_TENTHS) \div 10
      newStartX == 0
      newBall == [id |-> id, x |-> newStartX, y |-> baseY - Px(BALL_START_LIFT)]
      built == InitialPlatforms(0,
                 [ platforms |-> << >>,
                   worldBodies |-> WorldClear(bodies) \cup {newBall.id},
                   currentEndX |-> newStartX - Px(PLATFORM_LENGTH) \div 2,
                   rng |-> r,
                   nextBodyId |-> id + 1 ],
                 baseY)
  IN  [ ball |-> newBall,
        startX |-> newStartX,
        platforms |-> built.platforms,
        worldBodies |-> built.worldBodies,
        lastPlatformEndX |-> built.currentEndX,
        rng |-> built.rng,
        nextBodyId |-> built.nextBodyId,
        cameraX |-> newBall.x - (w * CAMERA_LEAD_RATIO_TENTHS) \div 10,
        platformAngle |-> 0,
        targetPlatformAngle |-> 0,
        distanceTravelled |-> 0 ]

\* A faulty spawnPlatform: the centre is placed at the gap's end, without
\* the half length.
spawnPlatform_noHalf(st, h) ==
  LET baseY == (h * PLATFORM_Y_BASE_RATIO_TENTHS) \div 10
      gap == randBetween(Px(PLATFORM_GAP_MIN), Px(PLATFORM_GAP_MAX), st.rng)
      r1 == NextRng(st.rng)
      centerX == st.lastPlatformEndX + gap
      yVariation == randBetween(-Px(PLATFORM_Y_VARIATION), Px(PLATFORM_Y_VARIATION), r1)
      centerY == baseY + yVariation
      platform == [id |-> st.nextBodyId, x |-> centerX, y |-> centerY, angle |-> 0]
  IN  [ platforms |-> Append(st.platforms, platform),
        worldBodies |-> st.worldBodies \cup {platform.id},
        lastPlatformEndX |-> centerX + Px(PLATFORM_LENGTH) \div 2,
        rng |-> NextRng(r1),
        nextBodyId |-> st.nextBodyId + 1 ]

\* spawnPlatform(): st holds platforms, lastPlatformEndX, rng, nextBodyId and
\* worldBodies; h is the viewport height.
spawnPlatform(st, h) ==
  LET baseY == (h * PLATFORM_Y_BASE_RATIO_TENTHS) \div 10
      gap == randBetween(Px(PLATFORM_GAP_MIN), Px(PLATFORM_GAP_MAX), st.rng)
      r1 == NextRng(st.rng)
      centerX == st.lastPlatformEndX + gap + Px(PLATFORM_LENGTH) \div 2
      yVariation == randBetween(-Px(PLATFORM_Y_VARIATION), Px(PLATFORM_Y_VARIATION), r1)
      centerY == baseY + yVariation
      platform == [id |-> st.nextBodyId, x |-> centerX, y |-> centerY, angle |-> 0]
  IN  [ platforms |-> Append(st.platforms, platform),
        worldBodies |-> st.worldBodies \cup {platform.id},
        lastPlatformEndX |-> centerX + Px(PLATFORM_LENGTH) \div 2,
        rng |-> NextRng(r1),
        nextBodyId |-> st.nextBodyId + 1 ]

\* while (lastPlatformEndX < aheadThreshold) spawnPlatform();
RECURSIVE SpawnWhile(_, _, _)
SpawnWhile(st, aheadThreshold, h) ==
  IF st.lastPlatformEndX < aheadThreshold
  THEN SpawnWhile(spawnPlatform(st, h), aheadThreshold, h)
  ELSE st

\* A faulty maybeSpawnPlatforms: an if where the while is.
maybeSpawnPlatforms_once(st, cam, w, h) ==
  IF st.lastPlatformEndX < cam + w * 2 THEN spawnPlatform(st, h) ELSE st

\* A faulty maybeSpawnPlatforms: a do-while where the while is.
maybeSpawnPlatforms_doWhile(st, cam, w, h) ==
  SpawnWhile(spawnPlatform(st, h), cam + w * 2, h)

\* maybeSpawnPlatforms(), with cameraX = cam and width = w.
maybeSpawnPlatforms(st, cam, w, h) == SpawnWhile(st, cam + w * 2, h)

\* A faulty cullOldPlatforms: the cutoff is one screen behind the camera.
cullOldPlatforms_oneScreen(ps, bodies, cam, w) ==
  LET cutoff == cam - w
      Kept(p) == ~(RightEdge(p) < cutoff)
      kept == SelectSeq(ps, Kept)
  IN  [ platforms |-> kept,
        worldBodies |-> bodies \ (IdsOf(ps) \ IdsOf(kept)) ]

\* A faulty cullOldPlatforms: nothing is removed.
cullOldPlatforms_keepAll(ps, bodies, cam, w) ==
  [ platforms |-> ps, worldBodies |-> bodies ]

\* cullOldPlatforms(): the platforms kept and the world without the removed.
cullOldPlatforms(ps, bodies, cam, w) ==
  LET cutoff == cam - w * 2
      Kept(p) == ~(RightEdge(p) < cutoff)
      kept == SelectSeq(ps, Kept)
  IN  [ platforms |-> kept,
        worldBodies |-> bodies \ (IdsOf(ps) \ IdsOf(kept)) ]

\* ------------------------------------------------------------------- input

\* A faulty updateTargetPlatformAngle: the tilt is mapped without the clamp.
updateTargetPlatformAngle_unclamped(tilt, tiltDeg, k) ==
  IF tilt
  THEN (tiltDeg * MAX_PLATFORM_ANGLE_RAD) \div MAX_TILT_DEG
  ELSE (IF k.left THEN -MAX_PLATFORM_ANGLE_RAD ELSE 0)
     + (IF k.right THEN MAX_PLATFORM_ANGLE_RAD ELSE 0)

\* updateTargetPlatformAngle()
updateTargetPlatformAngle(tilt, tiltDeg, k) ==
  IF tilt
  THEN LET maxTilt == MAX_TILT_DEG
           clamped == Max(-maxTilt, Min(maxTilt, tiltDeg))
       IN  (clamped * MAX_PLATFORM_ANGLE_RAD) \div maxTilt
  ELSE (IF k.left THEN -MAX_PLATFORM_ANGLE_RAD ELSE 0)
     + (IF k.right THEN MAX_PLATFORM_ANGLE_RAD ELSE 0)

\* A faulty SmoothAngle: t = stiffness * dt, without the cap at 1.
SmoothAngle_uncapped(angle, target, dtMs) ==
  angle + ((target - angle) * PLATFORM_ANGLE_LERP * dtMs) \div 1000

\* applyPlatformAngle(dt): the new platformAngle.
SmoothAngle(angle, target, dtMs) == Lerp(angle, target, PLATFORM_ANGLE_LERP, dtMs)

\* Body.setAngle(p, angle) for every platform.
SetAngles(ps, angle) == [i \in 1..Len(ps) |-> [ps[i] EXCEPT !.angle = angle]]

\* A faulty BodiesAtStep: the physics step comes before applyPlatformAngle.
BodiesAtStep_before(before, turned) == before

\* The platform bodies Engine.update works on: loop calls applyPlatformAngle
\* first and stepPhysics second, so they are the bodies as applyPlatformAngle
\* left them (turned), not as the frame found them (before).
BodiesAtStep(before, turned) == turned

\* ------------------------------------------------------- camera + distance

\* A faulty updateCamera: t = CAMERA_LERP * dt, without the cap at 1.
updateCamera_uncapped(cam, ballX, w, dtMs) ==
  LET desiredCameraX == ballX - (w * CAMERA_LEAD_RATIO_TENTHS) \div 10
  IN  cam + (((desiredCameraX - cam) \div 250) * (CAMERA_LERP * dtMs)) \div 4

\* updateCamera(dt): the new cameraX.
updateCamera(cam, ballX, w, dtMs) ==
  LET desiredCameraX == ballX - (w * CAMERA_LEAD_RATIO_TENTHS) \div 10
  IN  Lerp(cam, desiredCameraX, CAMERA_LERP, dtMs)

\* updateDistance(): the new distanceTravelled.
updateDistance(ballX, sx) == Max(0, ballX - sx)

\* ------------------------------------------------ physics + fail condition

\* Engine.update(engine, dtMs) is the physics engine's: where it leaves the
\* ball is its choice.  The ball moves BallStep pixels right or left and
\* ends exactly on the kill line, or right and a pixel below the line.
PhysicsOutcomes(b, h) ==
  { [id |-> b.id, x |-> b.x + Px(BallStep), y |-> h * KILL_Y_MULTIPLIER],
    [id |-> b.id, x |-> b.x - Px(BallStep), y |-> h * KILL_Y_MULTIPLIER],
    [id |-> b.id, x |-> b.x + Px(BallStep), y |-> h * KILL_Y_MULTIPLIER + Px(1)] }

\* A faulty BallFell: a ball on the kill line dies too.
BallFell_onLine(b, h) == b.y >= h * KILL_Y_MULTIPLIER

\* The test of stepPhysics: ball.position.y > killY.
BallFell(b, h) == b.y > h * KILL_Y_MULTIPLIER

\* ----------------------------------------------------------- initial state

\* The script's top level: the state variables' initialisers, then
\* createWorld() (game.js:510) under the overlay.
Init ==
  \E size \in Sizes, seed \in 0..(RngMod - 1), dev \in Devices :
    \E cw \in { createWorld(Px(size.w), Px(size.h), seed, 1, {}) } :
        /\ width = Px(size.w)
        /\ height = Px(size.h)
        /\ ball = cw.ball
        /\ platforms = cw.platforms
        /\ lastPlatformEndX = cw.lastPlatformEndX
        /\ cameraX = cw.cameraX
        /\ platformAngle = cw.platformAngle
        /\ targetPlatformAngle = cw.targetPlatformAngle
        /\ startX = cw.startX
        /\ distanceTravelled = cw.distanceTravelled
        /\ worldBodies = cw.worldBodies
        /\ nextBodyId = cw.nextBodyId
        /\ rng = cw.rng
        /\ tiltX = 0
        /\ useTilt = FALSE
        /\ keys = [left |-> FALSE, right |-> FALSE]
        /\ lastTime = NULL
        /\ running = FALSE
        /\ status = Status("")
        /\ overlayShown = TRUE
        /\ device = dev
        /\ pendingStarts = 0
        /\ rafCallbacks = 0
        /\ frameCallbacks = 0
        /\ clock = 0
        /\ frameNo = 0
        /\ engineAngles = {}
        /\ inputs = 0

\* ------------------------------------------------------------ input events

worldVars == << ball, platforms, lastPlatformEndX, cameraX, platformAngle,
                targetPlatformAngle, startX, distanceTravelled, worldBodies,
                nextBodyId, rng >>

runVars == << lastTime, running, status, overlayShown, pendingStarts,
              rafCallbacks >>

frameVars == << frameCallbacks, clock, frameNo, engineAngles >>

\* window 'resize': resizeCanvas(), the viewport having changed.
Resize ==
  /\ frameCallbacks = 0
  /\ inputs < MaxInputs
  /\ inputs' = inputs + 1
  /\ \E size \in Sizes :
       /\ << Px(size.w), Px(size.h) >> /= << width, height >>
       /\ width' = Px(size.w)
       /\ height' = Px(size.h)
  /\ UNCHANGED << worldVars, runVars, frameVars, tiltX, useTilt, keys, device >>

\* window 'deviceorientation': ignored unless useTilt; otherwise a reading
\* that differs from the last one.
DeviceOrientation ==
  /\ frameCallbacks = 0
  /\ IF ~useTilt
     THEN UNCHANGED << tiltX, inputs >>
     ELSE /\ inputs < MaxInputs
          /\ inputs' = inputs + 1
          /\ \E gamma \in Gammas :
               /\ tiltX' = (IF gamma = NoGamma THEN 0 ELSE gamma)
               /\ tiltX' /= tiltX
  /\ UNCHANGED << worldVars, runVars, frameVars, width, height, useTilt, keys,
                  device >>

\* window 'keydown' of an arrow key that was up.
KeyDown ==
  /\ frameCallbacks = 0
  /\ inputs < MaxInputs
  /\ inputs' = inputs + 1
  /\ \E key \in { "ArrowLeft", "ArrowRight" } :
       /\ keys' = [ left |-> (key = "ArrowLeft") \/ keys.left,
                    right |-> (key = "ArrowRight") \/ keys.right ]
       /\ keys' /= keys
  /\ UNCHANGED << worldVars, runVars, frameVars, width, height, tiltX, useTilt,
                  device >>

\* window 'keyup' of an arrow key that was down.
KeyUp ==
  /\ frameCallbacks = 0
  /\ inputs < MaxInputs
  /\ inputs' = inputs + 1
  /\ \E key \in { "ArrowLeft", "ArrowRight" } :
       /\ keys' = [ left |-> (key /= "ArrowLeft") /\ keys.left,
                    right |-> (key /= "ArrowRight") /\ keys.right ]
       /\ keys' /= keys
  /\ UNCHANGED << worldVars, runVars, frameVars, width, height, tiltX, useTilt,
                  device >>

\* ---------------------------------------------------------- start / restart

\* startGame() from "Reset game state" on (game.js:497-503), with what
\* enableTiltIfPossible left in useTilt and statusEl.
StartRun(tilt, text) ==
  \E cw \in { createWorld(width, height, rng, nextBodyId, worldBodies) } :
      /\ useTilt' = tilt
      /\ status' = Status(text)
      /\ ball' = cw.ball
      /\ platforms' = cw.platforms
      /\ lastPlatformEndX' = cw.lastPlatformEndX
      /\ cameraX' = cw.cameraX
      /\ platformAngle' = cw.platformAngle
      /\ targetPlatformAngle' = cw.targetPlatformAngle
      /\ startX' = cw.startX
      /\ distanceTravelled' = cw.distanceTravelled
      /\ worldBodies' = cw.worldBodies
      /\ nextBodyId' = cw.nextBodyId
      /\ rng' = cw.rng
      /\ overlayShown' = FALSE
      /\ running' = TRUE
      /\ lastTime' = NULL
      /\ rafCallbacks' = rafCallbacks + 1

\* A faulty IsPortrait: the orientation is never checked.
IsPortrait_never(w, h) == FALSE

\* window.innerHeight > window.innerWidth
IsPortrait(w, h) == h > w

\* btnStart 'click': startGame() up to its await.  Where the host has no
\* requestPermission, enableTiltIfPossible does not suspend and the run
\* starts in the same task.
startGame ==
  /\ frameCallbacks = 0
  /\ overlayShown
  /\ UNCHANGED << frameVars, width, height, tiltX, keys, device, inputs >>
  /\ IF IsPortrait(width, height)
     THEN /\ status' = Status("Rotate device to landscape before starting.")
          /\ UNCHANGED << worldVars, lastTime, running, overlayShown,
                          pendingStarts, rafCallbacks, useTilt >>
     ELSE IF device = "ios"
     THEN /\ pendingStarts < MaxPendingStarts
          /\ pendingStarts' = pendingStarts + 1
          /\ useTilt' = FALSE
          /\ status' = Status("Starting")
          /\ UNCHANGED << worldVars, lastTime, running, overlayShown,
                          rafCallbacks >>
     ELSE IF device = "direct"
     THEN /\ StartRun(TRUE, "Tilt controls enabled.")
          /\ UNCHANGED pendingStarts
     ELSE /\ StartRun(FALSE, "No motion sensors detected. Keyboard only.")
          /\ UNCHANGED pendingStarts

\* DeviceOrientationEvent.requestPermission() settles: one suspended
\* startGame resumes.
PermissionSettles ==
  /\ frameCallbacks = 0
  /\ pendingStarts > 0
  /\ pendingStarts' = pendingStarts - 1
  /\ UNCHANGED << frameVars, width, height, tiltX, keys, device, inputs >>
  /\ \E res \in { "granted", "denied", "throws" } :
       IF res = "granted"
       THEN StartRun(TRUE, "Tilt controls enabled (iOS).")
       ELSE IF res = "denied"
       THEN StartRun(useTilt, "Tilt permission denied. Use arrow keys on desktop.")
       ELSE StartRun(useTilt, "Tilt permission error. Use keyboard on desktop.")

\* ---------------------------------------------------------------- main loop

\* The browser opens a display frame: the callbacks requested since the last
\* one are due, with this frame's timestamp.  While lastTime is null the
\* first callback takes dt = 0 whatever the timestamp, so one gap stands for
\* all.
GapsAfter(last) == IF last = NULL THEN { 100 } ELSE FrameGaps

BeginFrame ==
  /\ frameCallbacks = 0
  /\ rafCallbacks > 0
  /\ frameNo + rafCallbacks <= MaxFrames
  /\ \E gap \in GapsAfter(lastTime) : clock' = clock + gap
  /\ frameCallbacks' = rafCallbacks
  /\ rafCallbacks' = 0
  /\ frameNo' = frameNo + rafCallbacks
  /\ UNCHANGED << worldVars, lastTime, running, status, overlayShown,
                  pendingStarts, width, height, tiltX, useTilt, keys, device,
                  engineAngles, inputs >>

\* loop(timestamp), timestamp being the frame's.
loop ==
  /\ frameCallbacks > 0
  /\ frameCallbacks' = frameCallbacks - 1
  /\ UNCHANGED << clock, frameNo, width, height, tiltX, useTilt, keys, device,
                  pendingStarts, startX, inputs >>
  /\ IF ~running
     THEN UNCHANGED << ball, platforms, lastPlatformEndX, cameraX,
                       platformAngle, targetPlatformAngle, distanceTravelled,
                       worldBodies, nextBodyId, rng, lastTime, running,
                       status, overlayShown, rafCallbacks, engineAngles >>
     ELSE \E moved \in PhysicsOutcomes(ball, height) :
       LET timestamp == clock
           dtMs == IF lastTime = NULL THEN 0 ELSE timestamp - lastTime
           \* applyPlatformAngle(dt)
           target == updateTargetPlatformAngle(useTilt, tiltX, keys)
           angle == SmoothAngle(platformAngle, target, dtMs)
           turned == SetAngles(platforms, angle)
           \* stepPhysics(dtMs)
           stepped == BodiesAtStep(platforms, turned)
           died == BallFell(moved, height)
           \* updateCamera(dt); updateDistance()
           cam == updateCamera(cameraX, moved.x, width, dtMs)
           \* maybeSpawnPlatforms(); cullOldPlatforms()
           spawned == maybeSpawnPlatforms(
                        [ platforms |-> turned,
                          worldBodies |-> worldBodies,
                          lastPlatformEndX |-> lastPlatformEndX,
                          rng |-> rng,
                          nextBodyId |-> nextBodyId ],
                        cam, width, height)
           culled == cullOldPlatforms(spawned.platforms, spawned.worldBodies,
                                      cam, width)
       IN  /\ lastTime' = timestamp
           /\ targetPlatformAngle' = target
           /\ platformAngle' = angle
           /\ ball' = moved
           /\ engineAngles' = { stepped[i].angle : i \in 1..Len(stepped) }
           \* onPlayerDied()
           /\ running' = ~died
           /\ overlayShown' = (died \/ overlayShown)
           /\ status' = (IF died
                         THEN [ text |-> "You fell! Distance",
                                distance |-> ToFixed0(distanceTravelled) ]
                         ELSE status)
           /\ cameraX' = cam
           /\ distanceTravelled' = updateDistance(moved.x, startX)
           /\ lastPlatformEndX' = spawned.lastPlatformEndX
           /\ rng' = spawned.rng
           /\ nextBodyId' = spawned.nextBodyId
           /\ platforms' = culled.platforms
           /\ worldBodies' = culled.worldBodies
           \* requestAnimationFrame(loop)
           /\ rafCallbacks' = rafCallbacks + 1

Next ==
  \/ Resize
  \/ DeviceOrientation
  \/ KeyDown
  \/ KeyUp
  \/ startGame
  \/ PermissionSettles
  \/ BeginFrame
  \/ loop

Spec == Init /\ [][Next]_vars

\* A smoothing step divides without remainder: the model's arithmetic is the
\* program's, exactly.
ExactLerp(cur, target, stiffness, dtMs) ==
  LET num == LerpNum(stiffness, dtMs)
      g == GCD(1000, num)
  IN  ((target - cur) * (num \div g)) % (1000 \div g) = 0

\* ------------------------------------------------ the second frame of a run

\* event.gamma readings around the clamp at MAX_TILT_DEG and at the sensor's
\* range.
TiltReadings == { -90, -26, -25, -24, -1, 0, 1, 10, 24, 25, 26, 50, 90 }

\* Milliseconds between the first frame of a run and the second: a 60 Hz
\* frame, gaps under the cap of CAMERA_LERP * dt (t = 0.3, 0.6, 0.96), the
\* first gap over it, and a stall.
SecondFrameGaps == { 16, 50, 100, 160, 167, 5000 }

\* Where Engine.update left the ball in the first frame, in pixels from
\* startX.
FirstFrameBallX == { 0, 500, 3000 }

\* The timestamp of a run's first frame.
FirstFrameTime == 100

\* A run after its first frame, the second frame opened.  The page was
\* loaded in landscape on a host with requestPermission, the run was started
\* in tilt or in keyboard mode, the first frame (dt = 0) moved the ball and
\* nothing else, and then the keys and the sensor were touched; in keyboard
\* mode tiltX is the last reading of an earlier run in tilt mode.
FrameInit ==
  \E size \in { z \in Sizes : ~IsPortrait(z.w, z.h) }, seed \in 0..(RngMod - 1),
     bx \in FirstFrameBallX, tilt \in BOOLEAN, reading \in TiltReadings,
     left \in BOOLEAN, right \in BOOLEAN, gap \in SecondFrameGaps :
    \E loaded \in { createWorld(Px(size.w), Px(size.h), seed, 1, {}) } :
    \E cw \in { createWorld(Px(size.w), Px(size.h), loaded.rng,
                             loaded.nextBodyId, loaded.worldBodies) } :
        /\ width = Px(size.w)
        /\ height = Px(size.h)
        /\ ball = [cw.ball EXCEPT !.x = Px(bx),
                                  !.y = Px(size.h) * KILL_Y_MULTIPLIER]
        /\ platforms = cw.platforms
        /\ lastPlatformEndX = cw.lastPlatformEndX
        /\ cameraX = cw.cameraX
        /\ platformAngle = cw.platformAngle
        /\ targetPlatformAngle = cw.targetPlatformAngle
        /\ startX = cw.startX
        /\ distanceTravelled = updateDistance(Px(bx), cw.startX)
        /\ worldBodies = cw.worldBodies
        /\ nextBodyId = cw.nextBodyId
        /\ rng = cw.rng
        /\ tiltX = reading
        /\ useTilt = tilt
        /\ keys = [left |-> left, right |-> right]
        /\ lastTime = FirstFrameTime
        /\ running = TRUE
        /\ status = Status(IF tilt
                           THEN "Tilt controls enabled (iOS)."
                           ELSE "Tilt permission denied. Use arrow keys on desktop.")
        /\ overlayShown = FALSE
        /\ device = "ios"
        /\ pendingStarts = 0
        /\ rafCallbacks = 0
        /\ frameCallbacks = 1
        /\ clock = FirstFrameTime + gap
        /\ frameNo = 2
        /\ engineAngles = {cw.platformAngle}
        /\ inputs = 0

\* The second frame alone, from every such state.
FrameSpec == FrameInit /\ [][loop]_vars

\* The second frame has run.
SecondFrameRan == frameCallbacks = 0 /\ frameNo = 2 /\ lastTime > FirstFrameTime

\* The smoothing steps of the second frame divide without remainder.
FrameExactArithmetic ==
  frameCallbacks = 1 =>
    \A moved \in PhysicsOutcomes(ball, height) :
      /\ ExactLerp(platformAngle,
                   updateTargetPlatformAngle(useTilt, tiltX, keys),
                   PLATFORM_ANGLE_LERP, clock - lastTime)
      /\ ExactLerp(cameraX,
                   moved.x - (width * CAMERA_LEAD_RATIO_TENTHS) \div 10,
                   CAMERA_LERP, clock - lastTime)

\* The smoothing steps a next frame can take from a state of Spec divide
\* without remainder.
ExactArithmetic ==
  (running /\ frameNo < MaxFrames) =>
    \A gap \in FrameGaps, moved \in PhysicsOutcomes(ball, height) :
      /\ ExactLerp(platformAngle,
                   updateTargetPlatformAngle(useTilt, tiltX, keys),
                   PLATFORM_ANGLE_LERP, gap)
      /\ ExactLerp(cameraX,
                   moved.x - (width * CAMERA_LEAD_RATIO_TENTHS) \div 10,
                   CAMERA_LERP, gap)

\* ================================================================== claims

\* A step in which loop's body ran: a callback was taken while running.
LoopBodyRan == running /\ frameCallbacks' = frameCallbacks - 1

\* Platforms of the current world created by spawnPlatform, not createWorld.
SpawnedIds == { id \in IdsOf(platforms) : id > ball.id + initialCount }

\* The largest viewport width.
MaxWidth == Px(CHOOSE w \in { s.w : s \in Sizes } : \A s \in Sizes : s.w <= w)

\* C1: in every frame, once maybeSpawnPlatforms has returned, the frontier
\* lastPlatformEndX is at least cameraX + 2*width (nothing later in the frame
\* changes the frontier, the camera or the width).
C1_SpawnAhead ==
  [][LoopBodyRan => lastPlatformEndX' >= cameraX' + 2 * width']_vars

\* C1 witness: a frame has spawned several platforms and the frontier is
\* ahead of the threshold.
C1_Witness ==
  /\ lastTime /= NULL
  /\ Cardinality(SpawnedIds) >= 2
  /\ lastPlatformEndX >= cameraX + 2 * width

\* C2: in every frame, once cullOldPlatforms has returned, every platform
\* kept has its right edge at or right of cameraX - 2*width, and every
\* platform the frame removed had its right edge left of it.
C2_CullInvariant ==
  [][LoopBodyRan =>
       /\ \A i \in 1..Len(platforms') :
            RightEdge(platforms'[i]) >= cameraX' - 2 * width'
       /\ \A i \in 1..Len(platforms) :
            platforms[i].id \notin IdsOf(platforms') =>
              RightEdge(platforms[i]) < cameraX' - 2 * width']_vars

\* C2 witness: the first platforms of the world have been culled, and those
\* left are right of the cutoff.
C2_Witness ==
  /\ lastTime /= NULL
  /\ Len(platforms) > 0
  /\ platforms[1].id > ball.id + 1
  /\ RightEdge(platforms[1]) >= cameraX - 2 * width

\* C3: platformAngle is within [-MAX_PLATFORM_ANGLE_RAD,
\* MAX_PLATFORM_ANGLE_RAD] in every reachable state.
C3_AngleInRange ==
  /\ platformAngle >= -MAX_PLATFORM_ANGLE_RAD
  /\ platformAngle <= MAX_PLATFORM_ANGLE_RAD

\* C3 witness: a frame with a large dt has carried the angle all the way to
\* the maximum.
C3_Witness ==
  /\ lastTime /= NULL
  /\ targetPlatformAngle = MAX_PLATFORM_ANGLE_RAD
  /\ platformAngle = MAX_PLATFORM_ANGLE_RAD

\* C4: the platform collection is ordered by strictly increasing centerX and
\* the gap between consecutive platforms (right edge to left edge) is within
\* [PLATFORM_GAP_MIN, PLATFORM_GAP_MAX], in every reachable state.
C4_Chain ==
  \A i \in 1..(Len(platforms) - 1) :
    /\ platforms[i].x < platforms[i + 1].x
    /\ LeftEdge(platforms[i + 1]) - RightEdge(platforms[i]) >= Px(PLATFORM_GAP_MIN)
    /\ LeftEdge(platforms[i + 1]) - RightEdge(platforms[i]) <= Px(PLATFORM_GAP_MAX)

\* C4 witness: a world that has been culled at the left and extended at the
\* right, with createWorld's and spawnPlatform's platforms side by side.
C4_Witness ==
  /\ Len(platforms) >= 2
  /\ platforms[1].id > ball.id + 1
  /\ platforms[1].id <= ball.id + initialCount
  /\ SpawnedIds /= {}

\* C5: in a frame run while running, running becomes false exactly when the
\* ball is below height * KILL_Y_MULTIPLIER after the physics step; no other
\* step makes running false.
C5_KillCheck ==
  [][running =>
       ((~running') <=>
          (/\ frameCallbacks' = frameCallbacks - 1
           /\ ball'.y > height' * KILL_Y_MULTIPLIER))]_vars

\* C5 witness: the run has ended with the ball below the kill line.
C5_Witness ==
  /\ ~running
  /\ lastTime /= NULL
  /\ status.text = "You fell! Distance"
  /\ ball.y > height * KILL_Y_MULTIPLIER

\* C6: once the kill check has set running to false, distanceTravelled keeps
\* the value it had at that moment until createWorld runs: no step that ends
\* with the run not running (the dying frame's own remainder included)
\* changes it.
C6_DistanceFrozen ==
  [][~running' => distanceTravelled' = distanceTravelled]_vars

\* C7: the frame callback requests its next invocation only while running
\* holds: a step that adds a pending callback ends with running true.
C7_ScheduleOnlyWhileRunning ==
  [][rafCallbacks' > rafCallbacks => running']_vars

\* The bound of C8, from the widest viewport and the platform geometry: the
\* platforms alive lie between a cutoff and a frontier at most
\* 4*width + PLATFORM_GAP_MAX + PLATFORM_LENGTH apart, one every
\* PLATFORM_LENGTH + PLATFORM_GAP_MIN at the densest; createWorld's batch is
\* initialCount.
LiveBound ==
  Max(initialCount,
      (4 * MaxWidth + Px(PLATFORM_GAP_MAX) + Px(PLATFORM_LENGTH))
        \div (Px(PLATFORM_LENGTH) + Px(PLATFORM_GAP_MIN)) + 1)

\* C8: the number of live platforms never exceeds a bound fixed by the
\* screen width and the platform length/gap configuration, however many
\* frames have run.
C8_LiveBounded == Len(platforms) <= LiveBound

\* C8 witness: the world has created more platforms than the bound, and those
\* alive are within it.
C8_Witness ==
  /\ nextBodyId - ball.id - 1 > LiveBound
  /\ Len(platforms) <= LiveBound

\* No frame has run since the last createWorld.
FreshWorld == lastTime = NULL

\* Each platform after the first starts between 80 and 140 past the previous
\* platform's right edge.
GapsWithin80And140 ==
  \A i \in 1..(Len(platforms) - 1) :
    /\ LeftEdge(platforms[i + 1]) >= RightEdge(platforms[i]) + Px(80)
    /\ LeftEdge(platforms[i + 1]) <= RightEdge(platforms[i]) + Px(140)

\* C9 as stated: right after a world reset there are exactly 10 platforms,
\* the first centred at x = -130, and each next platform's left edge is
\* between 80 and 140 past the previous right edge.
C9_FirstAtMinus130 ==
  FreshWorld =>
    /\ Len(platforms) = 10
    /\ platforms[1].x = Px(-130)
    /\ GapsWithin80And140

\* C9 as amended: right after a world reset there are exactly 10 platforms,
\* the first centred at x = 0 = startX (its left edge at -130), and each next
\* platform's left edge is between 80 and 140 past the previous right edge.
C9_ResetScenario ==
  FreshWorld =>
    /\ Len(platforms) = 10
    /\ platforms[1].x = Px(0)
    /\ LeftEdge(platforms[1]) = Px(-130)
    /\ GapsWithin80And140

\* C9 witness: the world of a restart after a run: ten platforms, the first
\* under the ball.
C9_Witness ==
  /\ FreshWorld
  /\ running
  /\ frameNo > 0
  /\ Len(platforms) = 10
  /\ platforms[1].x = ball.x

\* What createWorld establishes.
ResetPost ==
  /\ worldBodies = {ball.id} \cup IdsOf(platforms)
  /\ lastPlatformEndX = RightEdge(platforms[Len(platforms)])
  /\ platformAngle = 0
  /\ targetPlatformAngle = 0
  /\ distanceTravelled = 0
  /\ cameraX = ball.x - (width * CAMERA_LEAD_RATIO_TENTHS) \div 10

\* C10: the bodies in the physics world are exactly the current ball and the
\* platforms of the collection, in every reachable state; and a world reset
\* (the first one, one after a run, two in a row) keeps no body of the
\* previous world and re-establishes the frontier, the angles, the distance
\* and the camera.
C10_WorldIsBallAndPlatforms ==
  /\ ResetPost
  /\ [](worldBodies = {ball.id} \cup IdsOf(platforms))
  /\ [][ball'.id /= ball.id =>
          (ResetPost' /\ worldBodies' \cap worldBodies = {})]_vars

\* C10 witness: a reset after a run that spawned platforms: the world holds
\* the new ball and the new platforms only.
C10_Witness ==
  /\ FreshWorld
  /\ frameNo > 0
  /\ ball.id > initialCount + 2
  /\ Cardinality(worldBodies) = initialCount + 1

\* The frame's dt in milliseconds, as loop computes it.
FrameDtMs == IF lastTime = NULL THEN 0 ELSE clock - lastTime

\* clamp(v, lo, hi)
Clamp(v, lo, hi) == IF v < lo THEN lo ELSE IF v > hi THEN hi ELSE v

\* C11: the target angle a frame computes is, in tilt mode,
\* clamp(tiltX, -MAX_TILT_DEG, MAX_TILT_DEG) / MAX_TILT_DEG *
\* MAX_PLATFORM_ANGLE_RAD whatever the keys (tiltX = 50 gives
\* +MAX_PLATFORM_ANGLE_RAD); in keyboard mode -MAX with only left held, +MAX
\* with only right held, 0 with neither or both, whatever tiltX; and it is
\* always within [-MAX_PLATFORM_ANGLE_RAD, MAX_PLATFORM_ANGLE_RAD].
C11_TargetAngle ==
  [][LoopBodyRan =>
       /\ useTilt =>
            /\ targetPlatformAngle' * MAX_TILT_DEG
                 = Clamp(tiltX, -MAX_TILT_DEG, MAX_TILT_DEG) * MAX_PLATFORM_ANGLE_RAD
            /\ tiltX = 50 => targetPlatformAngle' = MAX_PLATFORM_ANGLE_RAD
       /\ ~useTilt =>
            targetPlatformAngle' =
              CASE keys.left /\ ~keys.right -> -MAX_PLATFORM_ANGLE_RAD
                [] keys.right /\ ~keys.left -> MAX_PLATFORM_ANGLE_RAD
                [] OTHER -> 0
       /\ targetPlatformAngle' >= -MAX_PLATFORM_ANGLE_RAD
       /\ targetPlatformAngle' <= MAX_PLATFORM_ANGLE_RAD]_vars

\* C11 witness: a frame in tilt mode with tiltX = 50 and the left key held
\* has set the target to +MAX_PLATFORM_ANGLE_RAD.
C11_Witness ==
  /\ SecondFrameRan
  /\ useTilt
  /\ tiltX = 50
  /\ keys.left
  /\ ~keys.right
  /\ targetPlatformAngle = MAX_PLATFORM_ANGLE_RAD

\* C15: a frame moves cameraX by exactly the fraction min(1, CAMERA_LERP*dt)
\* of the way toward desiredCameraX = ball.x - CAMERA_LEAD_RATIO*width: 60%
\* of the way for dt = 0.1, onto the target for a large dt, and never past
\* it: the new cameraX lies between the old one and desiredCameraX.  The
\* way to the target is a multiple of 125 sub-pixels in every second frame,
\* which keeps the products within TLC's integers.
C15_CameraLerp ==
  [][LoopBodyRan =>
       LET desiredCameraX == ball'.x - (width * CAMERA_LEAD_RATIO_TENTHS) \div 10
           tMilli == Min(1000, CAMERA_LERP * FrameDtMs)
           \* the way to go, in units of 125 sub-pixels: 1000 = 8 * 125
           way == (desiredCameraX - cameraX) \div 125
       IN  /\ way * 125 = desiredCameraX - cameraX
           /\ (cameraX' - cameraX) * 8 = way * tMilli
           /\ FrameDtMs = 100 =>
                (cameraX' - cameraX) * 10 = (desiredCameraX - cameraX) * 6
           /\ FrameDtMs >= 5000 => cameraX' = desiredCameraX
           /\ \/ cameraX <= cameraX' /\ cameraX' <= desiredCameraX
              \/ desiredCameraX <= cameraX' /\ cameraX' <= cameraX]_vars

\* C15 witness: a frame with dt = 0.1 has left the camera strictly between
\* where it was and where it wants to be.
C15_Witness ==
  /\ SecondFrameRan
  /\ lastTime = FirstFrameTime + 100
  /\ cameraX > -(width * CAMERA_LEAD_RATIO_TENTHS) \div 10
  /\ cameraX < ball.x - (width * CAMERA_LEAD_RATIO_TENTHS) \div 10

\* C18: maybeSpawnPlatforms spawns nothing when the frontier is at or past
\* cameraX + 2*width on entry, and when it spawns the frontier on return is
\* less than cameraX + 2*width + PLATFORM_GAP_MAX + PLATFORM_LENGTH.
C18_NoBurst ==
  [][LoopBodyRan =>
       LET aheadThreshold == cameraX' + 2 * width
       IN  /\ lastPlatformEndX >= aheadThreshold =>
                /\ nextBodyId' = nextBodyId
                /\ lastPlatformEndX' = lastPlatformEndX
           /\ nextBodyId' > nextBodyId =>
                lastPlatformEndX' < aheadThreshold + Px(PLATFORM_GAP_MAX)
                                                   + Px(PLATFORM_LENGTH)]_vars

\* C18 witness: a frame has spawned platforms and the frontier is past the
\* threshold by less than a gap and a platform.
C18_Witness ==
  /\ SecondFrameRan
  /\ \E i \in 1..Len(platforms) : platforms[i].id > ball.id + initialCount
  /\ lastPlatformEndX >= cameraX + 2 * width
  /\ lastPlatformEndX < cameraX + 2 * width + Px(PLATFORM_GAP_MAX)
                                            + Px(PLATFORM_LENGTH)

\* A step in which createWorld ran after the load: a start has gone through.
RunStarted == ball'.id /= ball.id

\* The status texts of the probe outcomes that enable tilt.
TiltEnabledTexts == { "Tilt controls enabled (iOS).", "Tilt controls enabled." }

\* The status texts of the probe outcomes that fall back to the keyboard.
KeyboardTexts ==
  { "Tilt permission denied. Use arrow keys on desktop.",
    "Tilt permission error. Use keyboard on desktop.",
    "No motion sensors detected. Keyboard only." }

\* C12: whatever the outcome of the tilt-capability probe (granted, denied,
\* throwing, no permission API but sensors, no sensors), once it resolves the
\* run starts: the world is reset, running is true and a frame is scheduled;
\* useTilt is true exactly in the granted and the sensors-without-API cases,
\* and false in the others, a throw being handled like a denial.
C12_ProbeOutcomes ==
  [][RunStarted =>
       /\ ResetPost'
       /\ running'
       /\ lastTime' = NULL
       /\ rafCallbacks' = rafCallbacks + 1
       /\ status'.text \in TiltEnabledTexts \cup KeyboardTexts
       /\ useTilt' <=> (status'.text \in TiltEnabledTexts)]_vars

\* C13: a startGame invoked in portrait is refused: running, useTilt, the
\* ball, the platforms, the frontier, cameraX, platformAngle,
\* distanceTravelled and lastTime are unchanged, no permission request is
\* issued and no frame is scheduled.
C13_PortraitRefused ==
  [][(startGame /\ height > width) =>
       /\ UNCHANGED << running, useTilt, ball, platforms, lastPlatformEndX,
                       cameraX, platformAngle, distanceTravelled, lastTime >>
       /\ UNCHANGED << worldBodies, pendingStarts, rafCallbacks >>]_vars

\* C13 witness: after a run has ended the device is in portrait and a start
\* has been refused.
C13_Witness ==
  /\ IsPortrait(width, height)
  /\ status.text = "Rotate device to landscape before starting."
  /\ frameNo > 0
  /\ ~running
  /\ lastTime /= NULL

\* C14: distanceTravelled is never negative, and a frame run while running
\* never decreases it, wherever the physics step leaves the ball.
C14_DistanceMonotonic ==
  /\ [](distanceTravelled >= 0)
  /\ [][LoopBodyRan => distanceTravelled' >= distanceTravelled]_vars

\* C16: in every frame the platform angle is recomputed from the latest
\* tiltX / key state and applied before the physics step: every platform body
\* Engine.update works on has the platformAngle of that frame.
C16_AngleBeforePhysics ==
  [][LoopBodyRan =>
       /\ targetPlatformAngle' = updateTargetPlatformAngle(useTilt, tiltX, keys)
       /\ platformAngle' = SmoothAngle(platformAngle, targetPlatformAngle', FrameDtMs)
       /\ platforms /= << >>
       /\ engineAngles' = {platformAngle'}]_vars

\* C16 witness: a frame has turned the platforms and the physics step has
\* worked on the turned platforms.
C16_Witness ==
  /\ lastTime /= NULL
  /\ running
  /\ platformAngle /= 0
  /\ platformAngle /= targetPlatformAngle
  /\ engineAngles = {platformAngle}

\* C17: every platform of the collection, those spawned in the last frame
\* included, has body angle platformAngle, after every frame and once the
\* run has ended.
C17_SharedAngle ==
  \A i \in 1..Len(platforms) : platforms[i].angle = platformAngle

\* C19: while a startGame is suspended on the permission request no frame
\* callback is pending and no frame body (physics step, camera, distance,
\* spawn, cull) runs.
C19_NoSimulationWhileSuspended ==
  /\ [](pendingStarts > 0 => (rafCallbacks = 0 /\ frameCallbacks = 0))
  /\ [][pendingStarts > 0 => ~LoopBodyRan]_vars

\* C20: at most one loop callback is pending in every reachable state, so
\* the world is stepped at most once per display frame.
C20_OneChain == rafCallbacks + frameCallbacks <= 1

====
